---- MODULE Spec2Model ----
(***************************************************************************)
(* Model of the creation handler ShortenURL of the URL shortener           *)
(* (api/routes/shorten.go) running against the two databases of the        *)
(* key-value store: database 1 holds the per-client quota counters,        *)
(* database 0 holds the identifier -> URL mappings.  Every store command   *)
(* of the handler is one atomic step, so concurrent requests interleave    *)
(* between any two store commands.  Time is counted in minutes.            *)
(***************************************************************************)
EXTENDS Integers, Sequences, FiniteSets, TLC

VARIABLES now, quota, urls, req, fails, started, succ

vars == <<now, quota, urls, req, fails, started, succ>>

----------------------------------------------------------------------------
(* Bounds of the model *)

\* total number of requests ever started, when they run concurrently
MaxReqs == 2
\* total number of requests ever started, when they run one after another
MaxSeqReqs == 3
\* total number of requests ever started, when they run concurrently against
\* a store that does not fail
MaxBurstReqs == 3
\* total number of store commands that fail
MaxFails == 1
\* the configured API_QUOTA
Quota == 2
\* the clock advances TickStep minutes at a time and stops after MaxNow minutes
TickStep == 20
MaxNow == 40

(* Program constants *)

\* 30*time.Minute, the TTL of a quota counter
QuotaTTL == 30
\* body.Expiry = 24, the default expiry in hours
DefaultExpiry == 24
\* time.Hour in minutes
Hour == 60

\* the request slots that can be in flight at the same time
Procs == {1, 2}
Clients == {"ip1"}
\* body.CustomShort: "" asks for a generated identifier
Shorts == {"", "abc"}
\* the values of uuid.New().String()[:6]
GenIds == {"g1"}
Ids == (Shorts \ {""}) \cup GenIds
\* body.Expiry in hours: 0 means the caller supplied none
Expiries == {0, 1}

\* URLs are sequences of tokens, the scheme being the first token when present
Schemes == {"http://", "https://"}
OwnDomain == "short.ly"
URLs == { <<"https://", "ex.com", "/x">>, <<"ex.com", "/y">>,
          <<"http://", "short.ly">>, <<"not a url">> }

\* a key without expiry (redis TTL -1)
NoExpiry == -1

----------------------------------------------------------------------------
(* Strings and conversions *)

\* the empty string
Empty == << >>

\* the decimal string of n: a one-token string holding the number
Itoa(n) == << n >>

\* strconv.Atoi with its error dropped: 0 for anything that is not a number
Atoi(s) == IF Len(s) = 1 /\ s[1] \in Int THEN s[1] ELSE 0

\* govalidator.IsURL
IsURL(u) == /\ Len(u) >= 1
            /\ \/ u[1] \in {"ex.com", OwnDomain}
               \/ Len(u) >= 2 /\ u[1] \in Schemes /\ u[2] \in {"ex.com", OwnDomain}

\* helpers.RemoveDomainError: FALSE when the target is the service's own domain
RemoveDomainError(u) ==
    LET rest == IF Len(u) >= 1 /\ u[1] \in Schemes THEN Tail(u) ELSE u
    IN  ~(Len(rest) >= 1 /\ rest[1] = OwnDomain)

\* helpers.EnforceHTTP: prefix the secure scheme when the URL has none
EnforceHTTP(u) ==
    IF Len(u) >= 1 /\ u[1] \in Schemes THEN u ELSE <<"https://">> \o u

----------------------------------------------------------------------------
(* The key-value store: a database is a function from its live keys to     *)
(* [val, exp], exp the absolute expiry time or NoExpiry                    *)

Put(db, k, v) == [x \in DOMAIN db \cup {k} |-> IF x = k THEN v ELSE db[x]]

\* GET: the value, or the empty string with redis.Nil when the key is absent
GetCmd(db, k) == IF k \in DOMAIN db THEN db[k].val ELSE Empty

\* SET key value EX ttl
SetCmd(db, k, v, ttl) == Put(db, k, [val |-> v, exp |-> now + ttl])

\* DECR: an absent key counts as 0 and is created without expiry; a live key
\* keeps its expiry
DecrCmd(db, k) ==
    IF k \in DOMAIN db
    THEN [db EXCEPT ![k].val = Itoa(Atoi(@) - 1)]
    ELSE Put(db, k, [val |-> Itoa(-1), exp |-> NoExpiry])

\* TTL: -2 (nanoseconds) for an absent key, -1 for a key without expiry,
\* else the remaining time in minutes
TTLCmd(db, k) ==
    IF k \notin DOMAIN db THEN -2
    ELSE IF db[k].exp = NoExpiry THEN -1
    ELSE db[k].exp - now

\* limit / time.Nanosecond / time.Minute: whole minutes, the negative
\* nanosecond replies truncating to 0
Minutes(d) == IF d < 0 THEN 0 ELSE d

\* the keys of db that are still live at time t
Live(db, t) == {k \in DOMAIN db : db[k].exp = NoExpiry \/ t < db[k].exp}

Expire(db, t) == [k \in Live(db, t) |-> db[k]]

----------------------------------------------------------------------------
(* Requests *)

NoResp == [url |-> Empty, short |-> "", expiry |-> 0, rate |-> 0, reset |-> 0]

\* raw is body.URL as received and url its current value; expiry is
\* body.Expiry as received; value is what the collision check read (line 78);
\* seen is the counter value the quota check let the request pass with;
\* wrote and failed are the store commands of the request that changed the
\* store, resp. that failed; open are the store handles the request holds
\* and closed those it has closed
IdleReq == [pc |-> "idle", ip |-> "", raw |-> Empty, url |-> Empty,
            expiry |-> 0, id |-> "", value |-> Empty, seen |-> 0, status |-> "",
            resp |-> NoResp, wrote |-> {}, failed |-> {}, open |-> {},
            closed |-> {}]

\* a store command may fail while the failure budget lasts
Outcomes == IF fails < MaxFails THEN {TRUE, FALSE} ELSE {TRUE}

Charge(ok) == fails' = IF ok THEN fails ELSE fails + 1

Failed(f, op, ok) == IF ok THEN f ELSE [f EXCEPT !.failed = @ \cup {op}]

Wrote(f, op, ok) == IF ok THEN [f EXCEPT !.wrote = @ \cup {op}] ELSE f

\* Return without the deferred r.Close() of line 76
Return_QuotaOnly(status, f) ==
    [f EXCEPT !.pc = "done", !.status = status, !.open = @ \ {"quota"},
              !.closed = f.open \cap {"quota"}, !.url = Empty, !.expiry = 0]

\* return c.Status(...).JSON(...): the deferred Close calls run, each on the
\* handle whose defer statement was reached
Return(status, f) ==
    [f EXCEPT !.pc = "done", !.status = status, !.open = {},
              !.closed = f.open, !.url = Empty, !.expiry = 0]

Quiet == \A p \in Procs : req[p].pc \in {"idle", "done"}

\* no response is waiting to be delivered
Delivered == \A p \in Procs : req[p].pc # "done"

Init ==
    /\ now = 0
    /\ quota = << >>
    /\ urls = << >>
    /\ req = [r \in Procs |-> IdleReq]
    /\ fails = 0
    /\ started = 0
    /\ succ = [c \in Clients |-> 0]

----------------------------------------------------------------------------
(* ShortenURL, one action per store command.  The fields of the request    *)
(* body are drawn where the handler first reads them.                      *)

\* lines 30-38: parse the body, open the quota database handle.  The slots
\* are interchangeable: a request takes the lowest free one.  limit bounds the
\* number of requests of a run.
Start(r, sequential, limit) ==
    /\ Delivered
    /\ req[r].pc = "idle"
    /\ \A p \in Procs : p < r => req[p].pc # "idle"
    /\ started < limit
    /\ sequential => Quiet
    /\ started' = started + 1
    /\ \E parsed \in BOOLEAN, ip \in Clients :
         req' = [req EXCEPT ![r] =
                   IF parsed
                   THEN [IdleReq EXCEPT !.pc = "quota_get", !.ip = ip,
                                        !.open = {"quota"}]
                   ELSE Return("BadRequest", [IdleReq EXCEPT !.ip = ip])]
    /\ UNCHANGED <<now, quota, urls, fails, succ>>

\* Validate without the domain check of lines 59-62
Validate_NoDomainCheck(f, u, short, gen) ==
    LET g == [f EXCEPT !.raw = u, !.url = u]
    IN  IF ~IsURL(u) THEN [g EXCEPT !.pc = "done", !.status = "InvalidInput",
                                    !.open = {}, !.closed = g.open, !.url = Empty]
        ELSE [g EXCEPT !.pc = "coll_get",
                       !.url = EnforceHTTP(u),
                       !.id = IF short = "" THEN gen ELSE short,
                       !.open = {"quota", "urls"}]

\* lines 54-76: IsURL, RemoveDomainError, EnforceHTTP, choice of the
\* identifier (gen is uuid.New().String()[:6]), open the mapping database
\* handle
Validate(f, u, short, gen) ==
    LET g == [f EXCEPT !.raw = u, !.url = u]
    IN  IF ~IsURL(u) THEN Return("InvalidInput", g)
        ELSE IF ~RemoveDomainError(u) THEN Return("ForbiddenTarget", g)
        ELSE [g EXCEPT !.pc = "coll_get",
                       !.url = EnforceHTTP(u),
                       !.id = IF short = "" THEN gen ELSE short,
                       !.open = {"quota", "urls"}]

\* lines 40-44: value, err := redisClient.Get(c.IP())
QuotaGet(r) ==
    /\ Delivered
    /\ req[r].pc = "quota_get"
    /\ \E ok \in Outcomes :
         /\ Charge(ok)
         /\ LET f == Failed(req[r], "quota_get", ok)
            IN  req' = [req EXCEPT ![r] =
                  IF ~ok THEN Return("StorageUnavailable", f)
                  ELSE IF req[r].ip \notin DOMAIN quota
                       THEN [f EXCEPT !.pc = "quota_init"]
                       ELSE [f EXCEPT !.pc = "quota_reget"]]
    /\ UNCHANGED <<now, quota, urls, started, succ>>

\* line 42: _ = redisClient.Set(c.IP(), API_QUOTA, 30*time.Minute).Err(),
\* then lines 54-76
QuotaInit(r) ==
    /\ Delivered
    /\ req[r].pc = "quota_init"
    /\ \E ok \in Outcomes, u \in URLs, short \in Shorts, gen \in GenIds :
         /\ Charge(ok)
         /\ quota' = IF ok THEN SetCmd(quota, req[r].ip, Itoa(Quota), QuotaTTL)
                          ELSE quota
         /\ req' = [req EXCEPT ![r] =
                      Validate(Wrote(Failed([req[r] EXCEPT !.seen = Quota],
                                            "quota_init", ok), "quota_init", ok),
                               u, short, gen)]
    /\ UNCHANGED <<now, urls, started, succ>>

\* QuotaReget counting the request before it checks the counter
QuotaReget_DecrFirst(r) ==
    /\ Delivered
    /\ req[r].pc = "quota_reget"
    /\ \E u \in URLs, short \in Shorts, gen \in GenIds :
         LET value == GetCmd(quota, req[r].ip)
             f == [req[r] EXCEPT !.wrote = @ \cup {"decr"}, !.seen = Atoi(value)]
         IN  /\ quota' = DecrCmd(quota, req[r].ip)
             /\ req' = [req EXCEPT ![r] =
                   IF Atoi(value) <= 0 THEN [f EXCEPT !.pc = "quota_ttl"]
                                       ELSE Validate(f, u, short, gen)]
    /\ UNCHANGED <<now, urls, fails, started, succ>>

\* lines 46-49: value, _ = redisClient.Get(c.IP()); val, _ := strconv.Atoi(value),
\* then lines 54-76 when val > 0
QuotaReget(r) ==
    /\ Delivered
    /\ req[r].pc = "quota_reget"
    /\ \E ok \in Outcomes, u \in URLs, short \in Shorts, gen \in GenIds :
         /\ Charge(ok)
         /\ LET value == IF ok THEN GetCmd(quota, req[r].ip) ELSE Empty
                f == Failed([req[r] EXCEPT !.seen = Atoi(value)], "quota_reget", ok)
            IN  req' = [req EXCEPT ![r] =
                  IF Atoi(value) <= 0 THEN [f EXCEPT !.pc = "quota_ttl"]
                                      ELSE Validate(f, u, short, gen)]
    /\ UNCHANGED <<now, quota, urls, started, succ>>

\* lines 50-51: limit, _ := redisClient.TTL(c.IP()); 503 "rate limit exceeded"
QuotaDenied(r) ==
    /\ Delivered
    /\ req[r].pc = "quota_ttl"
    /\ \E ok \in Outcomes :
         /\ Charge(ok)
         /\ LET limit == IF ok THEN TTLCmd(quota, req[r].ip) ELSE 0
                f == Failed(req[r], "quota_ttl", ok)
            IN  req' = [req EXCEPT ![r] =
                  Return("RateLimited", [f EXCEPT !.resp.reset = Minutes(limit)])]
    /\ UNCHANGED <<now, quota, urls, started, succ>>

\* CollisionGet without the test of line 79
CollisionGet_NoCheck(r) ==
    /\ Delivered
    /\ req[r].pc = "coll_get"
    /\ req' = [req EXCEPT ![r].pc = "url_set",
                          ![r].value = GetCmd(urls, req[r].id)]
    /\ UNCHANGED <<now, quota, urls, fails, started, succ>>

\* lines 78-81: value, _ = r.Get(id); 403 when value != ""
CollisionGet(r) ==
    /\ Delivered
    /\ req[r].pc = "coll_get"
    /\ \E ok \in Outcomes :
         /\ Charge(ok)
         /\ LET value == IF ok THEN GetCmd(urls, req[r].id) ELSE Empty
                f == [Failed(req[r], "coll_get", ok) EXCEPT !.value = value]
            IN  req' = [req EXCEPT ![r] =
                  IF value # Empty THEN Return("IdentifierInUse", f)
                  ELSE [f EXCEPT !.pc = "url_set"]]
    /\ UNCHANGED <<now, quota, urls, started, succ>>

\* lines 83-86: the default expiry when the body carries none
ResolveExpiry(e) == IF e = 0 THEN DefaultExpiry ELSE e

\* UrlSet without the default of lines 84-86
UrlSet_NoDefault(r) ==
    /\ Delivered
    /\ req[r].pc = "url_set"
    /\ \E e \in Expiries :
         /\ urls' = SetCmd(urls, req[r].id, req[r].url, e * Hour)
         /\ req' = [req EXCEPT ![r] =
                      [req[r] EXCEPT !.pc = "decr", !.expiry = e,
                                     !.wrote = @ \cup {"url_set"},
                                     !.resp = [url |-> req[r].url, short |-> "",
                                               expiry |-> e,
                                               rate |-> 10, reset |-> 30]]]
    /\ UNCHANGED <<now, quota, fails, started, succ>>

\* lines 83-100: err = r.Set(id, body.URL, body.Expiry*time.Hour); build resp
UrlSet(r) ==
    /\ Delivered
    /\ req[r].pc = "url_set"
    /\ \E ok \in Outcomes, e \in Expiries :
         /\ Charge(ok)
         /\ urls' = IF ok THEN SetCmd(urls, req[r].id, req[r].url, ResolveExpiry(e) * Hour)
                         ELSE urls
         /\ LET f == Wrote(Failed([req[r] EXCEPT !.expiry = e], "url_set", ok),
                           "url_set", ok)
            IN  req' = [req EXCEPT ![r] =
                  IF ~ok THEN Return("StorageUnavailable", f)
                  ELSE [f EXCEPT !.pc = "decr",
                                 !.resp = [url |-> req[r].url, short |-> "",
                                           expiry |-> ResolveExpiry(e),
                                           rate |-> 10, reset |-> 30]]]
    /\ UNCHANGED <<now, quota, started, succ>>

\* line 103: redisClient.Decr(c.IP()), its result dropped
Decr(r) ==
    /\ Delivered
    /\ req[r].pc = "decr"
    /\ \E ok \in Outcomes :
         /\ Charge(ok)
         /\ quota' = IF ok THEN DecrCmd(quota, req[r].ip) ELSE quota
         /\ req' = [req EXCEPT ![r] =
                      [Wrote(Failed(req[r], "decr", ok), "decr", ok)
                         EXCEPT !.pc = "resp_get"]]
    /\ UNCHANGED <<now, urls, started, succ>>

\* lines 105-113: val, _ := redisClient.Get(c.IP()); err is the nil error of
\* the mapping write, so the last branch runs
RespGet(r) ==
    /\ Delivered
    /\ req[r].pc = "resp_get"
    /\ \E ok \in Outcomes :
         /\ Charge(ok)
         /\ LET val == IF ok THEN GetCmd(quota, req[r].ip) ELSE Empty
            IN  req' = [req EXCEPT ![r] =
                          [Failed(req[r], "resp_get", ok)
                             EXCEPT !.pc = "resp_ttl", !.resp.rate = Atoi(val)]]
    /\ UNCHANGED <<now, quota, urls, started, succ>>

\* lines 114-118: ttl, _ := redisClient.TTL(c.IP()); 200
RespTTL(r) ==
    /\ Delivered
    /\ req[r].pc = "resp_ttl"
    /\ \E ok \in Outcomes :
         /\ Charge(ok)
         /\ LET ttl == IF ok THEN TTLCmd(quota, req[r].ip) ELSE 0
                f == Failed(req[r], "resp_ttl", ok)
            IN  req' = [req EXCEPT ![r] =
                  Return("OK", [f EXCEPT !.resp.reset = Minutes(ttl),
                                         !.resp.short = req[r].id])]
    /\ succ' = [succ EXCEPT ![req[r].ip] = @ + 1]
    /\ UNCHANGED <<now, quota, urls, started>>

\* lines 33-118, the return statements: the response leaves and the slot is
\* free for the next request.  Delivery touches nothing shared, so it is
\* scheduled before any other step (the guard Delivered of the other actions).
Deliver(r) ==
    /\ req[r].pc = "done"
    /\ req' = [req EXCEPT ![r] = IdleReq]
    /\ UNCHANGED <<now, quota, urls, fails, started, succ>>

\* TickStep minutes pass; the store drops the keys whose time-to-live has
\* elapsed.  succ counts a client's successes inside the current window of its
\* counter.
Tick(betweenRequests) ==
    /\ Delivered
    /\ betweenRequests => Quiet
    /\ now + TickStep <= MaxNow
    /\ now' = now + TickStep
    /\ quota' = Expire(quota, now')
    /\ urls' = Expire(urls, now')
    /\ succ' = [c \in Clients |->
                  IF c \in DOMAIN quota /\ c \notin DOMAIN quota' THEN 0 ELSE succ[c]]
    /\ UNCHANGED <<req, fails, started>>

\* requests are handled concurrently; a request is short, so that the clock
\* advances between requests
Next ==
    \/ \E r \in Procs :
         \/ Start(r, FALSE, MaxReqs)
         \/ QuotaGet(r) \/ QuotaInit(r) \/ QuotaReget(r) \/ QuotaDenied(r)
         \/ CollisionGet(r) \/ UrlSet(r)
         \/ Decr(r) \/ RespGet(r) \/ RespTTL(r)
         \/ Deliver(r)
    \/ Tick(TRUE)

Spec == Init /\ [][Next]_vars

\* requests are handled one after another; a request may be slow, so that
\* the clock advances between any two of its store commands
NextSeq ==
    \/ \E r \in Procs :
         \/ Start(r, TRUE, MaxSeqReqs)
         \/ QuotaGet(r) \/ QuotaInit(r) \/ QuotaReget(r) \/ QuotaDenied(r)
         \/ CollisionGet(r) \/ UrlSet(r)
         \/ Decr(r) \/ RespGet(r) \/ RespTTL(r)
         \/ Deliver(r)
    \/ Tick(FALSE)

SpecSeq == Init /\ [][NextSeq]_vars

\* the store is reliable: no store command fails
InitReliable ==
    /\ now = 0
    /\ quota = << >>
    /\ urls = << >>
    /\ req = [r \in Procs |-> IdleReq]
    /\ fails = MaxFails
    /\ started = 0
    /\ succ = [c \in Clients |-> 0]

\* a burst of requests handled concurrently against a reliable store
NextBurst ==
    \/ \E r \in Procs :
         \/ Start(r, FALSE, MaxBurstReqs)
         \/ QuotaGet(r) \/ QuotaInit(r) \/ QuotaReget(r) \/ QuotaDenied(r)
         \/ CollisionGet(r) \/ UrlSet(r)
         \/ Decr(r) \/ RespGet(r) \/ RespTTL(r)
         \/ Deliver(r)
    \/ Tick(TRUE)

SpecBurst == InitReliable /\ [][NextBurst]_vars

----------------------------------------------------------------------------
(* Properties *)

Custom(id) == id \in Shorts \ {""}

Finished(r, status) == req[r].pc = "done" /\ req[r].status = status

\* the store commands of the quota check (lines 40-53)
QuotaCheckOps == {"quota_get", "quota_init", "quota_reget"}

\* C1: of the concurrent requests that carry the same custom identifier at
\* most one writes the mapping and succeeds, the others being refused with
\* IdentifierInUse; stated for the runs in which no store command fails.
C1_SingleWinner ==
    fails = 0 =>
      \A p, q \in Procs :
        (p # q /\ Custom(req[p].id) /\ req[p].id = req[q].id)
          => ~("url_set" \in req[p].wrote /\ "url_set" \in req[q].wrote)

\* C2: a client that issues its requests one after another inside one window
\* never has more than Quota successes, and is denied with RateLimited only
\* after Quota successes.
C2_QuotaCount ==
    now = 0 =>
      /\ \A c \in Clients : succ[c] <= Quota
      /\ \A r \in Procs : Finished(r, "RateLimited") => succ[req[r].ip] = Quota

\* C3: no client stays denied forever: a counter that denies (remaining <= 0)
\* always carries an expiry, after which the client is allowed again; stated
\* for the runs in which no store command fails.
C3_DenialExpires ==
    fails = 0 =>
      \A c \in DOMAIN quota : Atoi(quota[c].val) <= 0 => quota[c].exp # NoExpiry

C5_DeniedWritesNothing ==
    \A r \in Procs : req[r].status = "RateLimited" => req[r].wrote = {}

C5_Witness ==
    \E r \in Procs : /\ Finished(r, "RateLimited")
                     /\ req[r].ip \in DOMAIN quota
                     /\ Atoi(quota[req[r].ip].val) <= 0

\* C6: a request that succeeds has decremented the counter, and a request
\* that ends in an error has not.
C6_DecrementPerSuccess ==
    \A r \in Procs :
      req[r].pc = "done" =>
        IF req[r].status = "OK" THEN "decr" \in req[r].wrote
                                ELSE "decr" \notin req[r].wrote

\* C7: a request one of whose quota-check store commands failed ends with
\* StorageUnavailable, having written no mapping and decremented no counter.
C7_QuotaFailureAborts ==
    \A r \in Procs :
      req[r].failed \cap QuotaCheckOps # {} =>
        /\ Finished(r, "StorageUnavailable")
        /\ req[r].wrote \cap {"url_set", "decr"} = {}

C9_RoundTrip ==
    fails = 0 =>
      \A r \in Procs :
        Finished(r, "OK") =>
          /\ req[r].resp.url = EnforceHTTP(req[r].raw)
          /\ req[r].raw[1] \in Schemes => req[r].resp.url = req[r].raw
          /\ req[r].id \in DOMAIN urls => urls[req[r].id].val = req[r].resp.url

\* C10: a request that finds no counter for its client is allowed with the
\* counter set to Quota for QuotaTTL minutes, and when it succeeds (no time
\* having passed) the counter and the reported rate_limit are Quota - 1.
C10_FirstObservation ==
    now = 0 =>
      \A r \in Procs :
        /\ req[r].pc \in {"coll_get", "url_set", "decr", "resp_get", "resp_ttl"}
             => "quota_init" \notin req[r].failed
        /\ (Finished(r, "OK") /\ "quota_init" \in req[r].wrote \cup req[r].failed)
             => /\ req[r].ip \in DOMAIN quota
                /\ quota[req[r].ip] = [val |-> Itoa(Quota - 1), exp |-> QuotaTTL]
                /\ req[r].resp.rate = Quota - 1

\* C11: the rate_limit of a successful response of a client whose requests do
\* not overlap, the client's counter being in the store when the request
\* ends, is the counter value its quota check saw minus 1, and, no time having
\* passed, rate_limit and rate_limit_reset are the value and the remaining
\* minutes of the counter in the store; stated for the runs in which no store
\* command fails.
C11_ReadBack ==
    fails = 0 =>
      \A r \in Procs :
        Finished(r, "OK") =>
          /\ req[r].ip \in DOMAIN quota => req[r].resp.rate = req[r].seen - 1
          /\ now = 0 => /\ req[r].resp.rate = Atoi(GetCmd(quota, req[r].ip))
                        /\ req[r].resp.reset = Minutes(TTLCmd(quota, req[r].ip))

\* C12: under any interleaving of a client's requests the remaining quota is
\* never negative and the client never has more than Quota successes in one
\* window.
C12_NeverBelowZero ==
    \A c \in Clients :
      /\ c \in DOMAIN quota => Atoi(quota[c].val) >= 0
      /\ succ[c] <= Quota

\* C13: while a client's counter is live no step raises its value or moves
\* its expiry: the counter is set to Quota with a fresh TTL only when the
\* client has none.
C13_ResetOnlyWhenAbsent ==
    [][\A c \in Clients :
         (c \in DOMAIN quota /\ c \in DOMAIN quota')
           => /\ Atoi(quota'[c].val) <= Atoi(quota[c].val)
              /\ quota'[c].exp = quota[c].exp]_vars

\* C14: every quota counter in the store expires, at most QuotaTTL minutes
\* from now; stated for the runs in which no store command fails.
C14_CounterTTLBounded ==
    fails = 0 =>
      \A c \in DOMAIN quota :
        /\ quota[c].exp # NoExpiry
        /\ quota[c].exp - now <= QuotaTTL

\* C15: a request whose collision-check read failed writes no mapping and
\* ends with StorageUnavailable, never with success.
C15_CollisionFailureAborts ==
    \A r \in Procs :
      "coll_get" \in req[r].failed =>
        /\ "url_set" \notin req[r].wrote
        /\ req[r].pc = "done" => req[r].status = "StorageUnavailable"

\* the quota check (lines 40-53) let the request pass
QuotaPassed(r) ==
    \/ "quota_init" \in req[r].wrote \cup req[r].failed
    \/ req[r].seen > 0

\* C16: a request takes its steps in the order quota check, URL validation
\* and forbidden-target check, collision check, mapping write, decrement,
\* read-back: each step has been taken only when the one before it has
\* passed, the decrement only after the mapping write succeeded, and a
\* request answered RateLimited has not looked at its URL.
C16_StepOrder ==
    \A r \in Procs :
      /\ req[r].raw # Empty => QuotaPassed(r)
      /\ req[r].id # "" => IsURL(req[r].raw) /\ RemoveDomainError(req[r].raw)
      /\ "url_set" \in req[r].wrote \cup req[r].failed
           => req[r].id # "" /\ req[r].value = Empty
      /\ "decr" \in req[r].wrote \cup req[r].failed => "url_set" \in req[r].wrote
      /\ (req[r].pc = "resp_ttl" \/ req[r].status = "OK")
           => "decr" \in req[r].wrote \cup req[r].failed
      /\ req[r].status = "RateLimited"
           => req[r].raw = Empty /\ req[r].id = "" /\ ~QuotaPassed(r)

C16_Witness ==
    \E r \in Procs : /\ Finished(r, "RateLimited")
                     /\ succ[req[r].ip] = Quota
                     /\ req[r].raw = Empty

\* C17: the step in which a request writes its mapping gives the mapping a
\* time-to-live of the request's expiry in hours, of DefaultExpiry hours when
\* the request carries none (expiry 0), and the response reports that
\* resolved expiry.
C17_MappingTTL ==
    [][\A r \in Procs :
         (req[r].pc = "url_set" /\ req'[r].pc = "decr")
           => LET e == req'[r].expiry
                  hours == IF e = 0 THEN 24 ELSE e
              IN  /\ req[r].id \in DOMAIN urls'
                  /\ urls'[req[r].id] = [val |-> req[r].url, exp |-> now + hours * 60]
                  /\ req'[r].resp.expiry = hours]_vars

C17_Witness ==
    \E r \in Procs : /\ req[r].pc = "decr"
                     /\ req[r].expiry = 0
                     /\ req[r].resp.expiry = 24
                     /\ req[r].id \in DOMAIN urls
                     /\ urls[req[r].id].exp = now + 24 * 60

\* the handles a request has opened so far: the quota database once the body
\* is parsed (line 37), the mapping database once the identifier is chosen
\* (line 75)
Opened(r) ==
    (IF req[r].pc # "idle" /\ req[r].status # "BadRequest" THEN {"quota"} ELSE {})
      \cup (IF req[r].id # "" THEN {"urls"} ELSE {})

\* C18: a request in flight holds exactly the handles it has opened and has
\* closed none; a request that has ended, on whatever exit path, holds no
\* handle and has closed exactly the handles it opened.
C18_HandlesClosed ==
    \A r \in Procs :
      IF req[r].pc = "done"
      THEN req[r].open = {} /\ req[r].closed = Opened(r)
      ELSE req[r].open = Opened(r) /\ req[r].closed = {}

C18_Witness ==
    \E r \in Procs : /\ Finished(r, "StorageUnavailable")
                     /\ "url_set" \in req[r].failed
                     /\ req[r].closed = {"quota", "urls"}
                     /\ req[r].open = {}

====
